---- MODULE Spec2Model ----
(***************************************************************************)
(* Model of packages/expo-styling/src/css-to-rn/index.ts: the transform    *)
(* from parsed CSS rules (lightningcss AST) to the registry of extracted  *)
(* styles and keyframes.                                                   *)
(*                                                                         *)
(* Conventions                                                             *)
(*   - a CSS property name is the sequence of its characters, so that the  *)
(*     camelCase conversion is computed and not assumed;                   *)
(*   - a JS value is a tagged tuple: <<"undefined">>, <<"null">>,          *)
(*     <<"static", text>>, <<"runtime", text>>, <<"array", items>>;        *)
(*   - an optional JS binding (let x: T | undefined) is <<>> when          *)
(*     undefined and <<x>> when set;                                       *)
(*   - a number x is kept as the integer 100 * x, so that a keyframe       *)
(*     selector delivered as a fraction (0.5 for 50%) stays an integer.    *)
(***************************************************************************)
EXTENDS Integers, Sequences, FiniteSets, TLC

VARIABLES
  declarations,     \* Map<string, ExtractedStyle | ExtractedStyle[]> of cssToReactNativeRuntime
  keyframes,        \* Map<string, ExtractedKeyframe[]> of cssToReactNativeRuntime
  log,              \* the rules the visitor has been called with, in order
  source,           \* getExtractedStyle: the declarations of the block as written
  declarationBlock, \* getExtractedStyle: the parser's DeclarationBlock
  declarationArray, \* getExtractedStyle: const declarationArray
  idx,              \* getExtractedStyle: position of the for loop over declarationArray
  extrtactedStyle,  \* getExtractedStyle: const extrtactedStyle
  pc                \* getExtractedStyle: "idle", "start", "loop" or "done"

vars == <<declarations, keyframes, log, source, declarationBlock,
          declarationArray, idx, extrtactedStyle, pc>>

-----------------------------------------------------------------------------
(* Bounds *)

MaxDecls == 3       \* declarations written in one block
MaxRules == 3       \* rules handed to the visitor in one transform
MaxComponents == 3  \* components of one compound selector
MaxFrames == 2      \* frames of one keyframes rule

-----------------------------------------------------------------------------
(* JS values *)

undefined == <<"undefined">>
null == <<"null">>
Static(t) == <<"static", t>>
Runtime(t) == <<"runtime", t>>
Array(items) == <<"array", items>>

isArray(v) == v[1] = "array"
isNullish(v) == v = undefined \/ v = null

\* ../runtime/native/guards isRuntimeValue: an opaque predicate of the value
isRuntimeValue(v) == v[1] = "runtime"

None == <<>>
Some(x) == <<x>>

-----------------------------------------------------------------------------
(* Property names *)

Lower == <<"a","b","c","d","e","f","g","h","i","j","k","l","m",
           "n","o","p","q","r","s","t","u","v","w","x","y","z">>
Upper == <<"A","B","C","D","E","F","G","H","I","J","K","L","M",
           "N","O","P","Q","R","S","T","U","V","W","X","Y","Z">>

toUpperCase(ch) ==
  IF \E i \in 1..Len(Lower) : Lower[i] = ch
    THEN Upper[CHOOSE i \in 1..Len(Lower) : Lower[i] = ch]
    ELSE ch

\* property.startsWith("--")
startsWithDashDash(property) ==
  Len(property) >= 2 /\ property[1] = "-" /\ property[2] = "-"

\* property.replace(/-./g, (x) => x[1].toUpperCase())
RECURSIVE replaceDashChar(_, _)
replaceDashChar(s, i) ==
  IF i > Len(s) THEN <<>>
  ELSE IF s[i] = "-" /\ i < Len(s)
    THEN <<toUpperCase(s[i + 1])>> \o replaceDashChar(s, i + 2)
    ELSE <<s[i]>> \o replaceDashChar(s, i + 1)

camelCase(property) == replaceDashChar(property, 1)

color == <<"c","o","l","o","r">>
margin == <<"m","a","r","g","i","n">>
marginTop == margin \o <<"-","t","o","p">>
marginRight == margin \o <<"-","r","i","g","h","t">>
marginBottom == margin \o <<"-","b","o","t","t","o","m">>
marginLeft == margin \o <<"-","l","e","f","t">>
transform == <<"t","r","a","n","s","f","o","r","m">>
customX == <<"-","-","x">>

-----------------------------------------------------------------------------
(* getExtractedStyle *)

emptyExtractedStyle ==
  [style |-> <<>>, runtimeStyleProps |-> <<>>, variableProps |-> <<>>]

\* style[property] = value
setProp(style, property, value) ==
  [k \in DOMAIN style \cup {property} |->
     IF k = property THEN value ELSE style[k]]

\* style[property], undefined when the key is not there
getProp(style, property) ==
  IF property \in DOMAIN style THEN style[property] ELSE undefined

overwrite == [nullishCoalescing |-> FALSE, append |-> FALSE]
coalesce == [nullishCoalescing |-> TRUE, append |-> FALSE]
appendMode == [nullishCoalescing |-> FALSE, append |-> TRUE]

\* addStyleProp with the nullishCoalescing option ignored (style[property] = value)
addStyleProp_ignoreCoalescing(es, property, value, opts) ==
  IF value = undefined THEN es
  ELSE
    LET isVar == startsWithDashDash(property)
        prop == IF isVar THEN property ELSE camelCase(property)
        styleValue == getProp(es.style, prop)
    IN [style |->
          IF opts.append
            THEN IF isArray(styleValue)
                   THEN setProp(es.style, prop, Array(styleValue[2] \o value[2]))
                   ELSE setProp(es.style, prop, Array(<<value>>))
            ELSE setProp(es.style, prop, value),
        runtimeStyleProps |->
          IF isRuntimeValue(value) THEN Append(es.runtimeStyleProps, prop)
                                   ELSE es.runtimeStyleProps,
        variableProps |->
          IF isVar THEN Append(es.variableProps, property) ELSE es.variableProps]

addStyleProp(es, property, value, opts) ==
  IF value = undefined THEN es
  ELSE
    LET isVar == startsWithDashDash(property)
        variableProps == IF isVar THEN Append(es.variableProps, property)
                                  ELSE es.variableProps
        prop == IF isVar THEN property ELSE camelCase(property)
        style == es.style
        styleValue == getProp(style, prop)
        newStyle ==
          IF opts.append
            THEN IF isArray(styleValue)
                   THEN setProp(style, prop, Array(styleValue[2] \o value[2]))
                   ELSE setProp(style, prop, Array(<<value>>))
          ELSE IF opts.nullishCoalescing
            THEN IF isNullish(styleValue) THEN setProp(style, prop, value)
                                          ELSE style
          ELSE setProp(style, prop, value)
        runtimeStyleProps ==
          IF isRuntimeValue(value) THEN Append(es.runtimeStyleProps, prop)
                                   ELSE es.runtimeStyleProps
    IN [style |-> newStyle,
        runtimeStyleProps |-> runtimeStyleProps,
        variableProps |-> variableProps]

\* ./parseDeclaration: the calls of addStyleProp one declaration makes. The
\* shorthand margin writes its four longhands with nullishCoalescing, a
\* transform appends, every other property is written as it stands.
parseDeclaration(d) ==
  IF d.property = margin
    THEN << [property |-> marginTop, value |-> d.value, opts |-> coalesce],
            [property |-> marginRight, value |-> d.value, opts |-> coalesce],
            [property |-> marginBottom, value |-> d.value, opts |-> coalesce],
            [property |-> marginLeft, value |-> d.value, opts |-> coalesce] >>
  ELSE IF d.property = transform
    THEN << [property |-> transform, value |-> d.value, opts |-> appendMode] >>
  ELSE << [property |-> d.property, value |-> d.value, opts |-> overwrite] >>

RECURSIVE applyCalls(_, _, _)
applyCalls(es, calls, i) ==
  IF i > Len(calls) THEN es
  ELSE applyCalls(addStyleProp(es, calls[i].property, calls[i].value, calls[i].opts),
                  calls, i + 1)

\* one iteration of the loop over declarationArray
processDeclaration(es, d) == applyCalls(es, parseDeclaration(d), 1)

\* The parser's DeclarationBlock of a block as written: the normal and the
\* important declarations, each list in document order, a list being
\* absent when the parser delivers none.
Present(items) == [present |-> TRUE, items |-> items]
Absent == [present |-> FALSE]

plain(d) == [property |-> d.property, value |-> d.value]
isImportant(d) == d.important
isNormal(d) == ~d.important

RECURSIVE mapPlain(_)
mapPlain(s) == IF s = <<>> THEN <<>> ELSE <<plain(Head(s))>> \o mapPlain(Tail(s))

DeclarationBlockOf(src, dropEmpty) ==
  LET normal == mapPlain(SelectSeq(src, isNormal))
      important == mapPlain(SelectSeq(src, isImportant))
      list(l) == IF dropEmpty /\ l = <<>> THEN Absent ELSE Present(l)
  IN [declarations |-> list(normal), importantDeclarations |-> list(important)]

\* [a, b].flat().filter((d) => !!d): an absent list stays as one undefined
\* element through flat() and is then filtered out
flatFilter(l) == IF l.present THEN l.items ELSE <<>>

\* declarationArray with the important declarations put first
declarationArrayOf_importantFirst(block) ==
  flatFilter(block.importantDeclarations) \o flatFilter(block.declarations)

declarationArrayOf(block) ==
  flatFilter(block.declarations) \o flatFilter(block.importantDeclarations)

RECURSIVE processAll(_, _, _)
processAll(es, arr, i) ==
  IF i > Len(arr) THEN es
  ELSE processAll(processDeclaration(es, arr[i]), arr, i + 1)

getExtractedStyle(block) ==
  processAll(emptyExtractedStyle, declarationArrayOf(block), 1)

-----------------------------------------------------------------------------
(* Inputs of getExtractedStyle *)

px1 == Static("1px")
px2 == Static("2px")
varX == Runtime("var(--x)")

Decl(p, v, imp) == [property |-> p, value |-> v, important |-> imp]

SourceDecls ==
  { Decl(marginRight, px1, FALSE),
    Decl(marginRight, varX, FALSE),
    Decl(margin, px2, FALSE),
    Decl(margin, varX, FALSE),
    Decl(margin, px1, TRUE),
    Decl(color, px1, FALSE),
    Decl(color, varX, FALSE),
    Decl(color, px1, TRUE),
    Decl(color, px2, TRUE),
    Decl(color, undefined, TRUE),
    Decl(marginRight, null, FALSE),
    Decl(customX, px1, FALSE),
    Decl(transform, Array(<<px1>>), FALSE),
    Decl(transform, Array(<<varX>>), FALSE) }

SeqsUpTo(S, n) == UNION { [1..k -> S] : k \in 0..n }

Sources == SeqsUpTo(SourceDecls, MaxDecls)

-----------------------------------------------------------------------------
(* getExtractedStyle as a process *)

IdleStyle ==
  /\ source = <<>>
  /\ declarationBlock = DeclarationBlockOf(<<>>, FALSE)
  /\ declarationArray = <<>>
  /\ idx = 0
  /\ extrtactedStyle = emptyExtractedStyle
  /\ pc = "idle"

IdleRegistry ==
  /\ declarations = <<>>
  /\ keyframes = <<>>
  /\ log = <<>>

InitStyle ==
  /\ IdleRegistry
  /\ source \in Sources
  /\ \E dropEmpty \in BOOLEAN : declarationBlock = DeclarationBlockOf(source, dropEmpty)
  /\ declarationArray = <<>>
  /\ idx = 0
  /\ extrtactedStyle = emptyExtractedStyle
  /\ pc = "start"

\* lines 288-299: the accumulator and declarationArray
Begin ==
  /\ pc = "start"
  /\ extrtactedStyle' = emptyExtractedStyle
  /\ declarationArray' = declarationArrayOf(declarationBlock)
  /\ idx' = 1
  /\ pc' = "loop"
  /\ UNCHANGED <<declarations, keyframes, log, source, declarationBlock>>

\* lines 376-381: one iteration
ProcessDeclaration ==
  /\ pc = "loop"
  /\ idx <= Len(declarationArray)
  /\ extrtactedStyle' = processDeclaration(extrtactedStyle, declarationArray[idx])
  /\ idx' = idx + 1
  /\ UNCHANGED <<declarations, keyframes, log, source, declarationBlock,
                 declarationArray, pc>>

\* line 383: return extrtactedStyle
Return ==
  /\ pc = "loop"
  /\ idx > Len(declarationArray)
  /\ pc' = "done"
  /\ UNCHANGED <<declarations, keyframes, log, source, declarationBlock,
                 declarationArray, idx, extrtactedStyle>>

NextStyle == Begin \/ ProcessDeclaration \/ Return

SpecStyle == InitStyle /\ [][NextStyle]_vars

-----------------------------------------------------------------------------
(* setStyleForSelectorList *)

StatePseudoClasses == {"hover", "active", "focus"}

\* pseudoClasses[kind] = true
setFlag(flags, kind) ==
  [k \in DOMAIN flags \cup {kind} |-> TRUE]

\* lines 90-184 with className set only when it is still undefined
classifyStep_firstClass(st, selector) ==
  IF selector.type = "class"
    THEN IF st.className = None
           THEN [st EXCEPT !.className = Some(selector.name)] ELSE st
  ELSE IF selector.type = "pseudo-class" /\ selector.kind \in StatePseudoClasses
    THEN [st EXCEPT !.pseudoClasses =
            Some(setFlag(IF st.pseudoClasses = None THEN <<>> ELSE st.pseudoClasses[1],
                         selector.kind))]
  ELSE st

\* lines 91-183: the switch over one component of a compound selector
classifyStep(st, selector) ==
  CASE selector.type = "class" ->
         [st EXCEPT !.className = Some(selector.name)]
    [] selector.type = "pseudo-class" ->
         IF selector.kind \in StatePseudoClasses
           THEN [st EXCEPT !.pseudoClasses =
                   Some(setFlag(IF st.pseudoClasses = None THEN <<>>
                                ELSE st.pseudoClasses[1],
                                selector.kind))]
           ELSE st
    [] OTHER -> st

RECURSIVE classifyFrom(_, _, _)
classifyFrom(st, selectors, i) ==
  IF i > Len(selectors) THEN st
  ELSE classifyFrom(classifyStep(st, selectors[i]), selectors, i + 1)

\* { ...style, field }
withField(style, field, value) ==
  [k \in DOMAIN style \cup {field} |-> IF k = field THEN value ELSE style[k]]

\* a slot of the declarations map: one ExtractedStyle, or an array of them
Single(es) == [isArray |-> FALSE, value |-> es]
List(items) == [isArray |-> TRUE, value |-> items]

\* lines 194-202 with the second rule replacing the first
mergeStyle_replace(decls, className, styleWithPseudoClass) ==
  IF className \in DOMAIN decls /\ decls[className].isArray
    THEN setProp(decls, className,
                 List(Append(decls[className].value, styleWithPseudoClass)))
  ELSE IF className \in DOMAIN decls
    THEN setProp(decls, className, List(<<styleWithPseudoClass>>))
  ELSE setProp(decls, className, Single(styleWithPseudoClass))

\* lines 194-202: the merge into the declarations map
mergeStyle(decls, className, styleWithPseudoClass) ==
  IF className \in DOMAIN decls /\ decls[className].isArray
    THEN setProp(decls, className,
                 List(Append(decls[className].value, styleWithPseudoClass)))
  ELSE IF className \in DOMAIN decls
    THEN setProp(decls, className,
                 List(<<decls[className].value, styleWithPseudoClass>>))
  ELSE setProp(decls, className, Single(styleWithPseudoClass))

noClassification == [className |-> None, pseudoClasses |-> None]

\* lines 86-203 with pseudoClasses declared outside the loop over the list
RECURSIVE setStyleFrom_sharedPseudo(_, _, _, _, _)
setStyleFrom_sharedPseudo(style, selectorList, decls, i, pseudo) ==
  IF i > Len(selectorList) THEN decls
  ELSE
    LET st == classifyFrom([className |-> None, pseudoClasses |-> pseudo],
                           selectorList[i], 1)
    IN IF st.className = None \/ st.className = Some("")
         THEN setStyleFrom_sharedPseudo(style, selectorList, decls, i + 1, st.pseudoClasses)
         ELSE setStyleFrom_sharedPseudo(style, selectorList,
                mergeStyle(decls, st.className[1],
                           IF st.pseudoClasses # None
                             THEN withField(style, "pseudoClasses", st.pseudoClasses[1])
                             ELSE style),
                i + 1, st.pseudoClasses)

setStyleForSelectorList_sharedPseudo(style, selectorList, decls) ==
  setStyleFrom_sharedPseudo(style, selectorList, decls, 1, None)

RECURSIVE setStyleFrom(_, _, _, _)
setStyleFrom(style, selectorList, decls, i) ==
  IF i > Len(selectorList) THEN decls
  ELSE
    LET st == classifyFrom(noClassification, selectorList[i], 1)
    IN IF st.className = None \/ st.className = Some("")
         THEN setStyleFrom(style, selectorList, decls, i + 1)
         ELSE
           LET styleWithPseudoClass ==
                 IF st.pseudoClasses # None
                   THEN withField(style, "pseudoClasses", st.pseudoClasses[1])
                   ELSE style
           IN setStyleFrom(style, selectorList,
                           mergeStyle(decls, st.className[1], styleWithPseudoClass),
                           i + 1)

setStyleForSelectorList(style, selectorList, decls) ==
  setStyleFrom(style, selectorList, decls, 1)

-----------------------------------------------------------------------------
(* extractedMedia *)

\* lines 213-216 without the negation by the qualifier
isScreen_ignoreNot(mediaQuery) == mediaQuery.mediaType # "print"

\* lines 213-216
isScreen(mediaQuery) ==
  LET byType == mediaQuery.mediaType # "print"
  IN IF mediaQuery.qualifier = Some("not") THEN ~byType ELSE byType

RECURSIVE mediaFrom(_, _)
mediaFrom(mediaQueries, i) ==
  IF i > Len(mediaQueries) THEN <<>>
  ELSE (IF isScreen(mediaQueries[i]) THEN <<mediaQueries[i]>> ELSE <<>>)
       \o mediaFrom(mediaQueries, i + 1)

RECURSIVE mediaRulesFrom(_, _, _, _)
mediaRulesFrom(rules, media, decls, i) ==
  IF i > Len(rules) THEN decls
  ELSE
    LET rule == rules[i]
    IN IF rule.type = "style" /\ rule.value.declarations # None
         THEN mediaRulesFrom(rules, media,
                setStyleForSelectorList(
                  withField(getExtractedStyle(rule.value.declarations[1]), "media", media),
                  rule.value.selectors, decls),
                i + 1)
         ELSE mediaRulesFrom(rules, media, decls, i + 1)

extractedMedia(mediaRule, decls) ==
  LET media == mediaFrom(mediaRule.query.mediaQueries, 1)
  IN IF Len(media) = 0 THEN decls
     ELSE mediaRulesFrom(mediaRule.rules, media, decls, 1)

-----------------------------------------------------------------------------
(* extractKeyFrames *)

\* the number n, in hundredths
Num(n) == n * 100

\* x * 100, x in hundredths
times100(x) == x * 100

\* frames.sort((a, b) => a.selector - b.selector): a stable sort
RECURSIVE insertSorted(_, _)
insertSorted(sorted, kf) ==
  IF sorted = <<>> THEN <<kf>>
  ELSE IF kf.selector - sorted[Len(sorted)].selector < 0
    THEN Append(insertSorted(SubSeq(sorted, 1, Len(sorted) - 1), kf), sorted[Len(sorted)])
    ELSE Append(sorted, kf)

RECURSIVE sortFrames(_, _)
sortFrames(frames, n) ==
  IF n = 0 THEN <<>> ELSE insertSorted(sortFrames(frames, n - 1), frames[n])

\* lines 263-277: the inner loop over frame.selectors
RECURSIVE pushSelectors(_, _, _, _)
pushSelectors(frames, selectors, style, j) ==
  IF j > Len(selectors) THEN frames
  ELSE
    LET selector == selectors[j]
        pushed ==
          CASE selector.type = "percentage" ->
                 Append(frames, [selector |-> selector.value, style |-> style])
            [] selector.type = "from" ->
                 Append(frames, [selector |-> Num(0), style |-> style])
            [] selector.type = "to" ->
                 Append(frames, [selector |-> Num(100), style |-> style])
            [] OTHER -> frames
    IN pushSelectors(pushed, selectors, style, j + 1)

\* lines 252-259
keyframeOf(selector) ==
  CASE selector.type = "percentage" -> Some(times100(selector.value))
    [] selector.type = "from" -> Some(Num(0))
    [] selector.type = "to" -> Some(Num(100))
    [] OTHER -> None

\* lines 251-278: the outer loop over frame.selectors
RECURSIVE frameSelectorsFrom(_, _, _, _)
frameSelectorsFrom(frames, selectors, style, i) ==
  IF i > Len(selectors) THEN frames
  ELSE IF keyframeOf(selectors[i]) = None
    THEN frameSelectorsFrom(frames, selectors, style, i + 1)
    ELSE frameSelectorsFrom(pushSelectors(frames, selectors, style, 1),
                            selectors, style, i + 1)

\* lines 248-279: the loop over keyframes.keyframes
RECURSIVE framesFrom(_, _, _)
framesFrom(frames, kfs, i) ==
  IF i > Len(kfs) THEN frames
  ELSE framesFrom(
         frameSelectorsFrom(frames, kfs[i].selectors,
                            getExtractedStyle(kfs[i].declarations).style, 1),
         kfs, i + 1)

extractKeyFrames(kfRule, map) ==
  LET frames == framesFrom(<<>>, kfRule.keyframes, 1)
  IN setProp(map, kfRule.name.value, sortFrames(frames, Len(frames)))

-----------------------------------------------------------------------------
(* extractRule and the visitor *)

extractRule(rule) ==
  /\ pc = "idle"
  /\ CASE rule.type = "keyframes" ->
            /\ keyframes' = extractKeyFrames(rule.value, keyframes)
            /\ UNCHANGED declarations
       [] rule.type = "media" ->
            /\ declarations' = extractedMedia(rule.value, declarations)
            /\ UNCHANGED keyframes
       [] rule.type = "style" ->
            /\ declarations' =
                 IF rule.value.declarations # None
                   THEN setStyleForSelectorList(
                          getExtractedStyle(rule.value.declarations[1]),
                          rule.value.selectors, declarations)
                   ELSE declarations
            /\ UNCHANGED keyframes
       [] OTHER -> UNCHANGED <<declarations, keyframes>>
  /\ log' = Append(log, rule)
  /\ UNCHANGED <<source, declarationBlock, declarationArray, idx, extrtactedStyle, pc>>

-----------------------------------------------------------------------------
(* Inputs of the visitor *)

cls(n) == [type |-> "class", name |-> n]
pseudo(k) == [type |-> "pseudo-class", kind |-> k]
typeDiv == [type |-> "type", name |-> "div"]
descendant == [type |-> "combinator", value |-> "descendant"]

ClassNames == {"a", "b"}

Components ==
  { cls("a"), cls("b"),
    pseudo("hover"), pseudo("active"), pseudo("focus"),
    pseudo("nth-child"), pseudo("not"), pseudo("focus-visible"),
    typeDiv, descendant,
    [type |-> "id", name |-> "x"],
    [type |-> "attribute", name |-> "href"],
    [type |-> "pseudo-element", kind |-> "before"],
    [type |-> "universal"],
    [type |-> "namespace", kind |-> "any"],
    [type |-> "nesting"] }

CompoundSelectors == SeqsUpTo(Components, MaxComponents) \ {<<>>}

BlockA == DeclarationBlockOf(<< Decl(color, px1, FALSE) >>, FALSE)
BlockB == DeclarationBlockOf(<< Decl(marginRight, varX, FALSE) >>, TRUE)

StyleRule(selectors, decls) ==
  [type |-> "style", value |-> [selectors |-> selectors, declarations |-> decls]]

SelectorLists ==
  { << <<cls("a")>> >>,
    << <<cls("a"), pseudo("hover")>> >>,
    << <<typeDiv>> >>,
    << <<cls("a"), pseudo("hover")>>, <<cls("a")>> >>,
    << <<cls("b")>>, <<typeDiv, descendant, cls("a"), pseudo("focus")>> >>,
    << <<typeDiv>>, <<cls("b")>> >> }

StyleRules ==
  { StyleRule(sl, Some(BlockA)) : sl \in SelectorLists }
    \cup { StyleRule(<< <<cls("a")>> >>, Some(BlockB)),
           StyleRule(<< <<cls("a"), pseudo("hover")>>, <<cls("a")>> >>, Some(BlockB)),
           StyleRule(<< <<cls("a")>> >>, None) }

mq(mediaType, qualifier) == [mediaType |-> mediaType, qualifier |-> qualifier]

QueryLists ==
  { << mq("print", None) >>,
    << mq("print", Some("not")) >>,
    << mq("screen", None) >>,
    << mq("screen", Some("not")) >>,
    << mq("print", None), mq("screen", Some("only")), mq("print", Some("not")) >> }

MediaRule(queries, rules) ==
  [type |-> "media", value |-> [query |-> [mediaQueries |-> queries], rules |-> rules]]

NestedOne == << StyleRule(<< <<cls("a")>> >>, Some(BlockA)) >>

NestedMany ==
    << StyleRule(<< <<cls("a"), pseudo("hover")>>, <<typeDiv>> >>, Some(BlockB)),
       StyleRule(<< <<cls("b")>> >>, None),
       MediaRule(<< mq("screen", None) >>, << StyleRule(<< <<cls("b")>> >>, Some(BlockA)) >>),
       StyleRule(<< <<cls("a")>> >>, Some(BlockA)) >>

MediaRules ==
  { MediaRule(q, NestedOne) : q \in QueryLists }
    \cup { MediaRule(<< mq("print", None) >>, NestedMany),
           MediaRule(<< mq("print", None), mq("screen", Some("only")),
                        mq("print", Some("not")) >>, NestedMany) }

OtherRules == { [type |-> "font-face"] }

pct(h) == [type |-> "percentage", value |-> h]
fromSel == [type |-> "from"]
toSel == [type |-> "to"]

\* 0%, 50% and 100% as the parser delivers them (0, 0.5 and 1), from and to
KeyframeSelectors == { pct(0), pct(50), pct(100), fromSel, toSel }

Frames ==
  { [selectors |-> sels, declarations |-> b] :
      sels \in SeqsUpTo(KeyframeSelectors, 2) \ {<<>>}, b \in {BlockA, BlockB} }

KeyframesRules ==
  { [type |-> "keyframes", value |-> [name |-> [value |-> "k"], keyframes |-> kfs]] :
      kfs \in SeqsUpTo(Frames, MaxFrames) \ {<<>>} }

-----------------------------------------------------------------------------
(* cssToReactNativeRuntime: the visitor is called with each rule of the     *)
(* sheet in document order; it returns [] for the rule, so the rules        *)
(* nested in it are not visited.                                            *)

Init ==
  /\ IdleRegistry
  /\ IdleStyle

VisitStyleRule ==
  /\ Len(log) < MaxRules
  /\ \E rule \in StyleRules : extractRule(rule)

VisitMediaRule ==
  /\ Len(log) < MaxRules
  /\ \E rule \in MediaRules : extractRule(rule)

VisitOtherRule ==
  /\ Len(log) < MaxRules
  /\ \E rule \in OtherRules : extractRule(rule)

Next == VisitStyleRule \/ VisitMediaRule \/ VisitOtherRule

Spec == Init /\ [][Next]_vars

\* one style rule with one compound selector
VisitSelectorRule ==
  /\ log = <<>>
  /\ \E selectors \in CompoundSelectors :
       extractRule(StyleRule(<<selectors>>, Some(BlockA)))

NextSelector == VisitSelectorRule

SpecSelector == Init /\ [][NextSelector]_vars

\* one keyframes rule
VisitKeyframesRule ==
  /\ log = <<>>
  /\ \E rule \in KeyframesRules : extractRule(rule)

NextKeyframes == VisitKeyframesRule

SpecKeyframes == Init /\ [][NextKeyframes]_vars

-----------------------------------------------------------------------------
(* Properties of getExtractedStyle *)

\* the keys of style the declarations are expected under
marginRightKey == <<"m","a","r","g","i","n","R","i","g","h","t">>
colorKey == <<"c","o","l","o","r">>

Max(S) == CHOOSE x \in S : \A y \in S : y <= x

\* positions of arr holding a declaration of property p with a defined value
WritesOf(arr, p) ==
  { i \in 1..Len(arr) : arr[i].property = p /\ arr[i].value # undefined }

\* C7: in a block that writes the longhand margin-right (overwrite mode) and
\* the shorthand margin (whose expansion writes marginRight in
\* nullish-coalesce mode), whichever is processed first, the returned
\* marginRight is the value of the last margin-right declaration, that
\* value being neither null nor undefined.
ShorthandPrecedence ==
  pc = "done" =>
    LET longhand == WritesOf(declarationArray, marginRight)
        shorthand == WritesOf(declarationArray, margin)
    IN (longhand # {} /\ shorthand # {}
          /\ declarationArray[Max(longhand)].value # null)
       => /\ marginRightKey \in DOMAIN extrtactedStyle.style
          /\ extrtactedStyle.style[marginRightKey]
               = declarationArray[Max(longhand)].value

\* C7 witness: margin-right: 1px; margin: 2px has been extracted
ShorthandPrecedenceWitness ==
  /\ pc = "done"
  /\ source = << Decl(marginRight, px1, FALSE), Decl(margin, px2, FALSE) >>
  /\ extrtactedStyle.style[marginRightKey] = px1

\* the declarations of the block as written, by importance, in document order
NormalOf(src) == mapPlain(SelectSeq(src, isNormal))
ImportantOf(src) == mapPlain(SelectSeq(src, isImportant))

\* C8: the declarations are processed in the order: every normal one in
\* document order, then every important one in document order; so when the
\* block has an important declaration of color (a property only written in
\* overwrite mode) with a defined value, the returned color is the value of
\* the last such declaration, whatever normal declarations of color the
\* block holds and wherever they stand.
ImportantProcessedLast ==
  /\ pc \in {"loop", "done"} =>
       /\ declarationArray = NormalOf(source) \o ImportantOf(source)
       /\ extrtactedStyle
            = processAll(emptyExtractedStyle,
                         SubSeq(NormalOf(source) \o ImportantOf(source), 1, idx - 1), 1)
  /\ pc = "done" =>
       LET imp == WritesOf(ImportantOf(source), color)
       IN imp # {} =>
            /\ colorKey \in DOMAIN extrtactedStyle.style
            /\ extrtactedStyle.style[colorKey] = ImportantOf(source)[Max(imp)].value

\* C8 witness: color: 1px !important; color: var(--x) has been extracted
ImportantProcessedLastWitness ==
  /\ pc = "done"
  /\ source = << Decl(color, px1, TRUE), Decl(color, varX, FALSE) >>
  /\ extrtactedStyle.style[colorKey] = px1

RECURSIVE count(_, _)
count(s, x) ==
  IF s = <<>> THEN 0 ELSE (IF Head(s) = x THEN 1 ELSE 0) + count(Tail(s), x)

\* C10: in the returned ExtractedStyle every name of runtimeStyleProps
\* occurs once and is a key of style whose stored value is a runtime value.
RuntimeStylePropsConsistent ==
  pc = "done" =>
    \A i \in 1..Len(extrtactedStyle.runtimeStyleProps) :
      LET name == extrtactedStyle.runtimeStyleProps[i]
      IN /\ count(extrtactedStyle.runtimeStyleProps, name) = 1
         /\ name \in DOMAIN extrtactedStyle.style
         /\ isRuntimeValue(extrtactedStyle.style[name])

-----------------------------------------------------------------------------
(* Properties of the registry *)

\* what a compound selector asks for, read off the selector as a whole
ClassPositions(sel) == { i \in 1..Len(sel) : sel[i].type = "class" }
StatePositions(sel) ==
  { i \in 1..Len(sel) : sel[i].type = "pseudo-class"
                        /\ sel[i].kind \in {"hover", "active", "focus"} }
HasClass(sel) == ClassPositions(sel) # {}
GoverningClass(sel) == sel[Max(ClassPositions(sel))].name
PseudoKinds(sel) == { sel[i].kind : i \in StatePositions(sel) }

\* the entry a compound selector contributes for a style payload
ExpectedEntry(payload, sel) ==
  IF PseudoKinds(sel) = {} THEN payload
  ELSE [style |-> payload.style,
        runtimeStyleProps |-> payload.runtimeStyleProps,
        variableProps |-> payload.variableProps,
        pseudoClasses |-> [k \in PseudoKinds(sel) |-> TRUE]]
       @@ (IF "media" \in DOMAIN payload THEN "media" :> payload.media ELSE <<>>)

RECURSIVE Concat(_)
Concat(ss) == IF ss = <<>> THEN <<>> ELSE Head(ss) \o Concat(Tail(ss))

\* the contributions of one selector list: one per compound selector that
\* has a class, in the order of the list
SelectorContributions(payload, selectorList) ==
  Concat([i \in 1..Len(selectorList) |->
            IF HasClass(selectorList[i])
              THEN << [className |-> GoverningClass(selectorList[i]),
                       entry |-> ExpectedEntry(payload, selectorList[i])] >>
              ELSE <<>>])

\* a media query is screen-applicable: not print, exclusive-or qualified by not
Kept(q) == (q.mediaType # "print") # (q.qualifier = Some("not"))
KeptQueries(mediaRule) == SelectSeq(mediaRule.query.mediaQueries, Kept)

MediaContributions(mediaRule) ==
  LET kept == KeptQueries(mediaRule)
      rules == mediaRule.rules
  IN IF kept = <<>> THEN <<>>
     ELSE Concat([i \in 1..Len(rules) |->
            IF rules[i].type = "style" /\ rules[i].value.declarations # None
              THEN SelectorContributions(
                     getExtractedStyle(rules[i].value.declarations[1]) @@ ("media" :> kept),
                     rules[i].value.selectors)
              ELSE <<>>])

Contributions(rule) ==
  IF rule.type = "style" /\ rule.value.declarations # None
    THEN SelectorContributions(getExtractedStyle(rule.value.declarations[1]),
                               rule.value.selectors)
  ELSE IF rule.type = "media" THEN MediaContributions(rule.value)
  ELSE <<>>

\* the entries contributed for class c, in the order encountered
RECURSIVE EntriesFor(_, _)
EntriesFor(contribs, c) ==
  IF contribs = <<>> THEN <<>>
  ELSE (IF Head(contribs).className = c THEN <<Head(contribs).entry>> ELSE <<>>)
       \o EntriesFor(Tail(contribs), c)

\* the slot of class c read as a list
AsList(decls, c) ==
  IF c \notin DOMAIN decls THEN <<>>
  ELSE IF decls[c].isArray THEN decls[c].value
  ELSE <<decls[c].value>>

\* C1: for every class name the slot is absent when no compound selector
\* with that class has been processed, the single style when one has, and
\* the list of all k contributions in the order encountered when k >= 2
\* have (so a later contribution leaves the earlier ones in place).
RegistryMergePolicy ==
  /\ DOMAIN declarations \subseteq ClassNames
  /\ \A c \in ClassNames :
       LET expected == EntriesFor(Concat([i \in 1..Len(log) |-> Contributions(log[i])]), c)
       IN /\ Len(expected) = 0 => c \notin DOMAIN declarations
          /\ Len(expected) = 1 =>
               /\ c \in DOMAIN declarations
               /\ declarations[c] = [isArray |-> FALSE, value |-> expected[1]]
          /\ Len(expected) >= 2 =>
               /\ c \in DOMAIN declarations
               /\ declarations[c] = [isArray |-> TRUE, value |-> expected]

\* C1 witness: three rules for .a have been processed one after the other
RegistryMergePolicyWitness ==
  /\ Len(log) = 3
  /\ \A i \in 1..3 : log[i] = StyleRule(<< <<cls("a")>> >>, Some(BlockA))
  /\ "a" \in DOMAIN declarations
  /\ declarations["a"].isArray
  /\ Len(declarations["a"].value) = 3

\* C4: a media rule none of whose queries is kept leaves the registry as it
\* is; otherwise every class gains, after what it had, one entry per
\* compound selector with that class of the nested style rules that have
\* declarations, each carrying as media the kept queries in their order.
MediaRuleEffect ==
  [][ (Len(log') = Len(log) + 1 /\ log'[Len(log')].type = "media") =>
        LET mediaRule == log'[Len(log')].value
            kept == KeptQueries(mediaRule)
            added == MediaContributions(mediaRule)
        IN /\ kept = <<>> => declarations' = declarations
           /\ \A i \in 1..Len(added) : added[i].entry.media = kept
           /\ \A c \in ClassNames :
                AsList(declarations', c) = AsList(declarations, c) \o EntriesFor(added, c)
    ]_vars

\* C4 witness: @media print, only screen, not print { .a {...} } has been
\* processed and the entry of .a carries the two kept queries
MediaRuleEffectWitness ==
  /\ Len(log) = 1
  /\ log[1] = MediaRule(<< mq("print", None), mq("screen", Some("only")),
                           mq("print", Some("not")) >>,
                        << StyleRule(<< <<cls("a")>> >>, Some(BlockA)) >>)
  /\ "a" \in DOMAIN declarations
  /\ declarations["a"].value.media = << mq("screen", Some("only")), mq("print", Some("not")) >>

\* C5: after a rule with the one compound selector sel, the registry is
\* empty when sel has no class component; otherwise its only key is the
\* name of the last class component of sel, and the entry has no
\* pseudoClasses field when none of hover, active, focus occurs in sel, and
\* else flags exactly the kinds that occur, each true. Nothing else of the
\* selector shows in the entry.
SelectorClassification ==
  log # <<>> =>
    LET sel == log[1].value.selectors[1]
        payload == getExtractedStyle(log[1].value.declarations[1])
        classes == { i \in 1..Len(sel) : sel[i].type = "class" }
        kinds == { k \in {"hover", "active", "focus"} :
                     \E i \in 1..Len(sel) :
                        sel[i].type = "pseudo-class" /\ sel[i].kind = k }
    IN IF classes = {} THEN DOMAIN declarations = {}
       ELSE LET last == CHOOSE i \in classes : \A j \in classes : j <= i
            IN /\ DOMAIN declarations = {sel[last].name}
               /\ ~declarations[sel[last].name].isArray
               /\ LET entry == declarations[sel[last].name].value
                  IN /\ DOMAIN entry \ {"pseudoClasses"} = DOMAIN payload
                     /\ \A f \in DOMAIN payload : entry[f] = payload[f]
                     /\ ("pseudoClasses" \in DOMAIN entry) = (kinds # {})
                     /\ kinds # {} =>
                          /\ DOMAIN entry.pseudoClasses = kinds
                          /\ \A k \in kinds : entry.pseudoClasses[k] = TRUE

\* C5 witness: .a:hover .b has been classified under b with the hover flag
SelectorClassificationWitness ==
  /\ log # <<>>
  /\ log[1].value.selectors[1] = << cls("a"), pseudo("hover"), cls("b") >>
  /\ DOMAIN declarations = {"b"}
  /\ DOMAIN declarations["b"].value.pseudoClasses = {"hover"}

\* C6: a style rule with declarations adds, for every class, after what the
\* class had, one entry per compound selector of its list governed by that
\* class, in the order of the list, and nothing for a compound selector
\* without a class; each entry is the rule's style with the pseudo-class
\* flags of its own compound selector only. A style rule without
\* declarations adds nothing.
StyleRuleEffect ==
  [][ (Len(log') = Len(log) + 1 /\ log'[Len(log')].type = "style") =>
        LET rule == log'[Len(log')].value
        IN IF rule.declarations = None THEN declarations' = declarations
           ELSE LET payload == getExtractedStyle(rule.declarations[1])
                    list == rule.selectors
                    own(c) == { i \in 1..Len(list) :
                                  HasClass(list[i]) /\ GoverningClass(list[i]) = c }
                IN \A c \in ClassNames :
                     LET before == AsList(declarations, c)
                         after == AsList(declarations', c)
                     IN /\ Len(after) = Len(before) + Cardinality(own(c))
                        /\ SubSeq(after, 1, Len(before)) = before
                        /\ \A i \in own(c) :
                             LET n == Len(before) + Cardinality({ j \in own(c) : j <= i })
                             IN /\ after[n].style = payload.style
                                /\ after[n].runtimeStyleProps = payload.runtimeStyleProps
                                /\ after[n].variableProps = payload.variableProps
                                /\ after[n] = ExpectedEntry(payload, list[i])
    ]_vars

\* C6 witness: .a:hover, .a {...} has been processed: two entries for a, the
\* hover flag on the first only
StyleRuleEffectWitness ==
  /\ Len(log) = 1
  /\ log[1] = StyleRule(<< <<cls("a"), pseudo("hover")>>, <<cls("a")>> >>, Some(BlockA))
  /\ "a" \in DOMAIN declarations
  /\ declarations["a"].isArray
  /\ Len(declarations["a"].value) = 2
  /\ "pseudoClasses" \in DOMAIN declarations["a"].value[1]
  /\ "pseudoClasses" \notin DOMAIN declarations["a"].value[2]

-----------------------------------------------------------------------------
(* Properties of extractKeyFrames *)

\* the percentage (0 to 100) a frame selector stands for, in hundredths
Percentage(selector) ==
  CASE selector.type = "percentage" -> 100 * selector.value
    [] selector.type = "from" -> 0
    [] selector.type = "to" -> 100 * 100

RECURSIVE Sum(_)
Sum(s) == IF s = <<>> THEN 0 ELSE Head(s) + Sum(Tail(s))

\* C2: the sequence stored for a keyframes rule holds one record per
\* (frame, selector) pair: its length is the sum of the frames' numbers of
\* selectors.
OneKeyframePerSelector ==
  log # <<>> =>
    LET kfs == log[1].value.keyframes
    IN Len(keyframes["k"]) = Sum([i \in 1..Len(kfs) |-> Len(kfs[i].selectors)])

\* C3: the selectors of the stored records are the percentages, on the 0 to
\* 100 scale, of the selectors of the rule: 0 for from, 100 for to, 100 * p
\* for a percentage delivered as the fraction p.
SelectorsOnPercentScale ==
  log # <<>> =>
    LET kfs == log[1].value.keyframes
        pairs == UNION { { <<i, j>> : j \in 1..Len(kfs[i].selectors) } :
                           i \in 1..Len(kfs) }
    IN { keyframes["k"][i].selector : i \in 1..Len(keyframes["k"]) }
         = { Percentage(kfs[p[1]].selectors[p[2]]) : p \in pairs }

\* C9: the stored sequence is ascending in percentage and keeps the input
\* order of the frames of equal percentage. Stated for the rules whose
\* frames have one selector each and different styles, where the frame a
\* stored record comes from is told by its style.
SortedByPercentageStable ==
  log # <<>> =>
    LET kfs == log[1].value.keyframes
        stored == keyframes["k"]
        styleOf(i) == getExtractedStyle(kfs[i].declarations).style
        frameOf(n) == CHOOSE i \in 1..Len(kfs) : styleOf(i) = stored[n].style
    IN ( /\ \A i \in 1..Len(kfs) : Len(kfs[i].selectors) = 1
         /\ \A i, j \in 1..Len(kfs) : i # j => styleOf(i) # styleOf(j) )
       => \A m, n \in 1..Len(stored) :
            m < n =>
              LET pm == Percentage(kfs[frameOf(m)].selectors[1])
                  pn == Percentage(kfs[frameOf(n)].selectors[1])
              IN pm < pn \/ (pm = pn /\ frameOf(m) < frameOf(n))

====
